---- MODULE Spec2Model ----
(***************************************************************************)
(* A model of psims/mzid/writer.py: the incremental MzIdentML writer, its  *)
(* document sections (context managers around one container element), the *)
(* identity registry ("context") the components register their ids in,     *)
(* and the record-writing operations of MzIdentMLWriter.                   *)
(*                                                                         *)
(* The code of psims.mzid.components and psims.xml is not part of the      *)
(* source tree modelled here; what the writer needs of it (the registry,   *)
(* component construction, the stream primitives) is modelled from the     *)
(* specification document.                                                 *)
(***************************************************************************)
EXTENDS Integers, Sequences, FiniteSets, TLC

VARIABLES
    context,        \* identity registry: category -> set of <<key, identifier>>
    counter,        \* per-category counter of synthesized identifiers
    stream,         \* the events written to the XML stream, in order
    element_stack,  \* the tags of the elements open on the stream
    flushed,        \* length of the stream at the last flush
    sections,       \* the DocumentSection instances created so far
    frames,         \* the with-statements the caller is inside of (instances)
    exc,            \* the exception propagating through the caller, or "none"
    warnings,       \* number of warnings emitted by warnings.warn
    calls,          \* the records the caller has written: <<category, id, parent>>
    last            \* what the last operation was and what it returned

vars == <<context, counter, stream, element_stack, flushed, sections, frames,
          exc, warnings, calls, last>>

----------------------------------------------------------------------------
(* Bounds of the model. *)

MaxStream == 6      \* events on the stream
MaxSections == 2    \* section instances created
MaxAuto == 2        \* synthesized identifiers per category
MaxProtocols == 2   \* protocols written in one run
MaxRecords == 3     \* records written in one run

----------------------------------------------------------------------------
(* Values.  A key or identifier is a pair <<prefix, number>>: <<"", n>> is *)
(* the plain value n, <<c, n>> with a category c is the text a synthesized *)
(* identifier of that category has.                                        *)

Lit(n) == <<"", n>>
AUTO == <<"AUTO", 0>>
NoId == <<"None", 0>>
DEFAULT_ORGANIZATION_ID == <<"DEFAULT_ORGANIZATION", 0>>
DEFAULT_CONTACT_ID == <<"DEFAULT_CONTACT", 0>>
CountAccession == "MS:1002404"

Categories == {"Organization", "Person", "AnalysisSoftware", "SearchDatabase",
               "SpectraData", "DBSequence", "Peptide", "PeptideEvidence",
               "SpectrumIdentificationResult", "SpectrumIdentificationProtocol",
               "SpectrumIdentificationList", "ProteinDetectionList"}

NoLast == [op |-> "none", cat |-> "", key |-> NoId, ret |-> NoId, sec |-> 0,
           pre |-> 0, flag |-> FALSE, count |-> 0, params |-> <<>>, refs |-> <<>>,
           tols |-> <<>>, owner |-> <<>>, organization |-> <<>>]

\* an event of the stream; refs are the cross-references <<category, identifier>>
\* it carries, attrs the other attributes <<name, value, unit>>
Event(op, tag, id, refs, attrs) ==
    [op |-> op, tag |-> tag, id |-> id, refs |-> refs, attrs |-> attrs]

----------------------------------------------------------------------------
(* Identity registry (specification document, section 4.1). *)

Has(ctx, cat, key) == \E p \in ctx[cat] : p[1] = key

Get(ctx, cat, key) == (CHOOSE p \in ctx[cat] : p[1] = key)[2]

Assigned(ctx, cat) == {p[2] : p \in ctx[cat]}

\* context[cat][key] = id: a dictionary assignment, replacing an older entry
SetItem(ctx, cat, key, id) ==
    [ctx EXCEPT ![cat] = {p \in @ : p[1] # key} \cup {<<key, id>>}]

\* the counter alone, whatever is assigned already
FreshNumber_counter(ctx, cnt, cat) == cnt[cat] + 1

\* the next synthesized identifier of a category: the counter, formatted
\* with the category's prefix, skipping identifiers already assigned
FreshNumber(ctx, cnt, cat) ==
    CHOOSE n \in (cnt[cat] + 1)..(cnt[cat] + 1 + Cardinality(ctx[cat])) :
        /\ <<cat, n>> \notin Assigned(ctx, cat)
        /\ \A m \in (cnt[cat] + 1)..(n - 1) : <<cat, m>> \in Assigned(ctx, cat)

\* register(category, key) -> [ctx, cnt, id]
RegisterAuto(ctx, cnt, cat) ==
    LET n == FreshNumber(ctx, cnt, cat)
    IN  [ctx |-> SetItem(ctx, cat, <<cat, n>>, <<cat, n>>),
         cnt |-> [cnt EXCEPT ![cat] = n],
         id |-> <<cat, n>>]

register(ctx, cnt, cat, key) ==
    IF key # AUTO /\ Has(ctx, cat, key)
    THEN [ctx |-> ctx, cnt |-> cnt, id |-> Get(ctx, cat, key)]
    ELSE IF key = AUTO
         THEN RegisterAuto(ctx, cnt, cat)
         ELSE [ctx |-> SetItem(ctx, cat, key, key), cnt |-> cnt, id |-> key]

\* resolve(category, key): the identifier, or NoId when the lookup fails
resolve(ctx, cat, key) == IF Has(ctx, cat, key) THEN Get(ctx, cat, key) ELSE NoId

----------------------------------------------------------------------------
(* The stream primitives (specification document, section 6): open(tag),   *)
(* param, close(tag), flush.                                               *)

Top(s) == s[Len(s)]
Pop(s) == SubSeq(s, 1, Len(s) - 1)

\* close(tag) is accepted when tag is the innermost open element
CanClose(stack, tag) == stack # <<>> /\ Top(stack) = tag

----------------------------------------------------------------------------
(* Initial state: a writer just constructed, nothing registered or written *)

Init ==
    /\ context = [c \in Categories |-> {}]
    /\ counter = [c \in Categories |-> 0]
    /\ stream = <<>>
    /\ element_stack = <<>>
    /\ flushed = 0
    /\ sections = <<>>
    /\ frames = <<>>
    /\ exc = "none"
    /\ warnings = 0
    /\ calls = <<>>
    /\ last = NoLast

\* the stream has room for n more events and for the closing tags still owed
Room(n) == Len(stream) + n + Len(element_stack) <= MaxStream

----------------------------------------------------------------------------
(* DocumentSection *)

\* a queued parameter; encodable is whether the stream accepts its value
Param(accession, value, encodable) ==
    [accession |-> accession, value |-> value, encodable |-> encodable]

\* DocumentSection.__init__: the instance as constructed
DocumentSection(section, id, params, fragmentation_table) ==
    [section |-> section, id |-> id, params |-> params,
     fragmentation_table |-> fragmentation_table,
     toplevel |-> FALSE, cm |-> FALSE]

\* the id attribute of the element built by _element(section, id=...)
ElementId(section, id) == id

\* the identifier stored as it is formatted for the id attribute
create_element_formatted(i) ==
    LET s == sections[i]
    IN  IF ~s.toplevel /\ s.id # NoId
        THEN SetItem(context, s.section, ElementId(s.section, s.id),
                     <<s.section, s.id[2]>>)
        ELSE context

\* DocumentSection._create_element: the registry after it
create_element(i) ==
    LET s == sections[i]
    IN  IF ~s.toplevel /\ s.id # NoId
        THEN SetItem(context, s.section, ElementId(s.section, s.id), s.id)
        ELSE context

\* the events one parameter after the other writes, up to the first one
\* whose write raises
RECURSIVE ParamEvents(_)
ParamEvents(params) ==
    IF params = <<>> \/ ~Head(params).encodable THEN <<>>
    ELSE <<Event("param", Head(params).accession, Lit(Head(params).value), <<>>, <<>>)>>
         \o ParamEvents(Tail(params))

OpenEvent(s) ==
    Event("open", s.section,
          IF s.id # NoId THEN ElementId(s.section, s.id) ELSE NoId, <<>>, <<>>)

CloseEvent(s) == Event("close", s.section, NoId, <<>>, <<>>)

FragmentationTableEvent == Event("element", "FragmentationTable", NoId, <<>>, <<>>)

\* the parameters written before the element is begun
EnterEvents_params_first(s) == ParamEvents(s.params) \o <<OpenEvent(s)>>

\* DocumentSection.__enter__: what it writes, in order
EnterEvents(s) == <<OpenEvent(s)>> \o ParamEvents(s.params)

\* DocumentSection.__enter__ raises: a parameter's write raised
ParamsFail(s) == \E k \in 1..Len(s.params) : ~s.params[k].encodable

\* SpectrumIdentficationListSection.__enter__: the base class's, then the table
SectionEnterEvents(s) ==
    EnterEvents(s) \o
    (IF /\ s.section = "SpectrumIdentificationList"
        /\ ~ParamsFail(s)
        /\ s.fragmentation_table = "ok"
     THEN <<FragmentationTableEvent>> ELSE <<>>)

\* __enter__ raises: in the parameters, or in the table's write
EnterFails(s) ==
    \/ ParamsFail(s)
    \/ s.section = "SpectrumIdentificationList" /\ s.fragmentation_table = "bad"

\* __enter__ of instance i, as a step of the program
enter(i) ==
    LET s == sections[i]
    IN  /\ context' = create_element(i)
        /\ sections' = [sections EXCEPT ![i].toplevel = TRUE, ![i].cm = TRUE]
        /\ stream' = stream \o SectionEnterEvents(s)
        /\ element_stack' = Append(element_stack, s.section)
        /\ exc' = IF EnterFails(s) THEN "EncodingError" ELSE exc
        /\ UNCHANGED <<counter, flushed, warnings, calls>>

\* __exit__ of instance i: close the element, then flush; raised is the
\* exception that leaves it (err when the calls of __exit__ raise nothing)
exit(i, err) ==
    LET s == sections[i]
    IN  IF ~s.cm
        THEN /\ exc' = "AttributeError"
             /\ UNCHANGED <<stream, element_stack, flushed>>
        ELSE IF CanClose(element_stack, s.section)
        THEN /\ stream' = Append(stream, CloseEvent(s))
             /\ element_stack' = Pop(element_stack)
             /\ flushed' = Len(stream')
             /\ exc' = err
        ELSE /\ exc' = "StreamDisciplineError"
             /\ UNCHANGED <<stream, element_stack, flushed>>

----------------------------------------------------------------------------
(* The caller: with-statements over section instances. *)

\* with sections[i]: ...   (entering the block)
WithEnter(i) ==
    /\ exc = "none"
    /\ Room(Len(SectionEnterEvents(sections[i])) + 1)
    /\ enter(i)
    /\ frames' = IF EnterFails(sections[i]) THEN frames ELSE Append(frames, i)
    /\ last' = [NoLast EXCEPT !.op = "enter", !.sec = i, !.pre = Len(stream),
                              !.flag = \E k \in 1..Len(frames) : frames[k] = i,
                              !.ret = IF sections[i].id = NoId THEN NoId
                                      ELSE resolve(context, sections[i].section,
                                                   sections[i].id)]

\* the block of the innermost with-statement ends normally
WithExit ==
    /\ exc = "none"
    /\ frames # <<>>
    /\ exit(Top(frames), "none")
    /\ frames' = Pop(frames)
    /\ last' = [NoLast EXCEPT !.op = "exit", !.sec = Top(frames), !.pre = Len(stream)]
    /\ UNCHANGED <<context, counter, sections, warnings, calls>>

\* the caller's own code raises inside a with-block
BodyRaise ==
    /\ exc = "none"
    /\ frames # <<>>
    /\ exc' = "BodyError"
    /\ last' = [NoLast EXCEPT !.op = "raise", !.sec = Top(frames), !.pre = Len(stream)]
    /\ UNCHANGED <<context, counter, stream, element_stack, flushed, sections,
                   frames, warnings, calls>>

\* an exception leaves the innermost with-block: __exit__(type, value, tb)
Unwind ==
    /\ exc # "none"
    /\ frames # <<>>
    /\ exit(Top(frames), exc)
    /\ frames' = Pop(frames)
    /\ last' = [NoLast EXCEPT !.op = "unwind", !.sec = Top(frames), !.pre = Len(stream)]
    /\ UNCHANGED <<context, counter, sections, warnings, calls>>

\* the exception reaches the caller's handler, outside every with-block
Catch ==
    /\ exc # "none"
    /\ frames = <<>>
    /\ exc' = "none"
    /\ last' = [NoLast EXCEPT !.op = "catch"]
    /\ UNCHANGED <<context, counter, stream, element_stack, flushed, sections,
                   frames, warnings, calls>>

----------------------------------------------------------------------------
(* The caller calling __enter__ and __exit__ itself, outside any with-     *)
(* statement.  frames then lists the instances whose element is open, in   *)
(* the order they were entered.                                            *)

IsOpen(i) == \E k \in 1..Len(frames) : frames[k] = i

\* s.__enter__()
RawEnter(i) ==
    /\ exc = "none"
    /\ Room(Len(SectionEnterEvents(sections[i])) + 1)
    /\ enter(i)
    /\ frames' = Append(frames, i)
    /\ last' = [NoLast EXCEPT !.op = "raw_enter", !.sec = i, !.pre = Len(stream),
                              !.flag = IsOpen(i)]

\* s.__exit__(None, None, None)
RawExit(i) ==
    /\ exc = "none"
    /\ exit(i, "none")
    /\ frames' = IF Len(stream') > Len(stream) THEN Pop(frames) ELSE frames
    /\ last' = [NoLast EXCEPT !.op = "raw_exit", !.sec = i, !.pre = Len(stream),
                              !.flag = \/ IsOpen(i) /\ Top(frames) # i
                                       \/ ~IsOpen(i) /\ sections[i].cm]
    /\ UNCHANGED <<context, counter, sections, warnings, calls>>

\* the caller handles the exception of a call it made itself
RawCatch ==
    /\ exc # "none"
    /\ exc' = "none"
    /\ last' = [NoLast EXCEPT !.op = "catch"]
    /\ UNCHANGED <<context, counter, stream, element_stack, flushed, sections,
                   frames, warnings, calls>>

----------------------------------------------------------------------------
(* MzIdentMLWriter: the operations that create sections. *)

None == 0 - 1

NewSection(s, op) ==
    /\ sections' = Append(sections, s)
    /\ last' = [NoLast EXCEPT !.op = op, !.sec = Len(sections) + 1,
                              !.pre = Len(stream), !.key = s.id]
    /\ UNCHANGED <<context, counter, stream, element_stack, flushed, frames,
                   exc, warnings, calls>>

\* MzIdentMLWriter.sequence_collection
sequence_collection ==
    /\ exc = "none"
    /\ Len(sections) < MaxSections
    /\ NewSection(DocumentSection("SequenceCollection", NoId, <<>>, "none"),
                  "sequence_collection")

\* MzIdentMLWriter.spectrum_identification_list: measures defaults to an
\* empty FragmentationTable, so the section always carries a table; measures
\* is "ok", or "bad" for a table whose write raises
spectrum_identification_list(id, measures) ==
    /\ exc = "none"
    /\ Len(sections) < MaxSections
    /\ NewSection(DocumentSection("SpectrumIdentificationList", id, <<>>, measures),
                  "spectrum_identification_list")

has_count_param(params) ==
    \E k \in 1..Len(params) : params[k].accession = CountAccession

\* the test with the count's own test turned round
count_conflict_inverted(count, params) == count = None /\ has_count_param(params)

\* ProteinDetectionListSection.__init__ raises ValueError
count_conflict(count, params) == count # None /\ has_count_param(params)

\* the test without the "not" on the parameter
count_missing_has(count, params) == count = None /\ has_count_param(params)

\* ProteinDetectionListSection.__init__ warns
count_missing(count, params) == count = None /\ ~has_count_param(params)

\* the queued parameters of a ProteinDetectionListSection once constructed
count_params(count, params) ==
    IF count # None THEN Append(params, Param(CountAccession, count, TRUE))
    ELSE params

\* MzIdentMLWriter.protein_detection_list, ProteinDetectionListSection.__init__
protein_detection_list(id, count, params) ==
    /\ exc = "none"
    /\ Len(sections) < MaxSections
    /\ warnings' = IF count_missing(count, params) THEN warnings + 1 ELSE warnings
    /\ IF count_conflict(count, params)
       THEN /\ exc' = "ValueError"
            /\ UNCHANGED sections
       ELSE /\ sections' = Append(sections,
                 DocumentSection("ProteinDetectionList", id,
                                 count_params(count, params), "none"))
            /\ UNCHANGED exc
    /\ last' = [NoLast EXCEPT !.op = "protein_detection_list",
                              !.sec = Len(sections) + 1, !.pre = Len(stream),
                              !.key = id, !.count = count, !.params = params]
    /\ UNCHANGED <<context, counter, stream, element_stack, flushed, frames, calls>>

----------------------------------------------------------------------------
(* Components (specification document, section 4.2): a component resolves  *)
(* its cross-references and registers its own id when it is constructed,   *)
(* and writes one element.                                                 *)

\* no lookup made
Resolvable_unchecked(ctx, refs) == TRUE

\* every cross-reference <<category, key>> of refs is registered
Resolvable(ctx, refs) ==
    \A k \in 1..Len(refs) : Has(ctx, refs[k][1], refs[k][2])

\* the cross-references as written: <<category, resolved identifier>>
Resolved(ctx, refs) ==
    [k \in 1..Len(refs) |-> <<refs[k][1], resolve(ctx, refs[k][1], refs[k][2])>>]

\* the section the caller is writing into, 0 outside every section
Parent == IF frames = <<>> THEN 0 ELSE Top(frames)

\* construct the component cat(id, refs) and write it to the stream
WriteComponent(op, cat, id, refs, attrs, tols) ==
    /\ exc = "none"
    /\ Room(1)
    /\ Len(calls) < MaxRecords
    /\ IF Resolvable(context, refs)
       THEN LET r == register(context, counter, cat, id)
            IN  /\ context' = r.ctx
                /\ counter' = r.cnt
                /\ stream' = Append(stream,
                       Event("element", cat, r.id, Resolved(context, refs), attrs))
                /\ calls' = Append(calls, <<cat, id, Parent>>)
                /\ UNCHANGED exc
       ELSE /\ exc' = "DanglingReferenceError"
            /\ UNCHANGED <<context, counter, stream, calls>>
    /\ last' = [NoLast EXCEPT !.op = op, !.cat = cat, !.key = id, !.refs = refs,
                              !.pre = Len(stream), !.sec = Parent, !.tols = tols]
    /\ UNCHANGED <<element_stack, flushed, sections, frames, warnings>>

\* the default of the *_id arguments that name another entity
DefaultId == Lit(1)

\* MzIdentMLWriter.write_db_sequence
write_db_sequence(id, search_database_id) ==
    WriteComponent("write_db_sequence", "DBSequence", id,
                   <<<<"SearchDatabase", search_database_id>>>>, <<>>, <<>>)

\* the Peptide built and registered, its write left out
write_peptide_unwritten(id) ==
    /\ exc = "none"
    /\ Room(1)
    /\ Len(calls) < MaxRecords
    /\ context' = register(context, counter, "Peptide", id).ctx
    /\ calls' = Append(calls, <<"Peptide", id, Parent>>)
    /\ last' = [NoLast EXCEPT !.op = "write_peptide", !.cat = "Peptide", !.key = id,
                              !.pre = Len(stream), !.sec = Parent]
    /\ UNCHANGED <<counter, stream, element_stack, flushed, sections, frames,
                   exc, warnings>>

\* MzIdentMLWriter.write_peptide
write_peptide(id) ==
    WriteComponent("write_peptide", "Peptide", id, <<>>, <<>>, <<>>)

\* MzIdentMLWriter.write_peptide_evidence
write_peptide_evidence(peptide_id, db_sequence_id, id) ==
    WriteComponent("write_peptide_evidence", "PeptideEvidence", id,
                   <<<<"Peptide", peptide_id>>, <<"DBSequence", db_sequence_id>>>>, <<>>, <<>>)

\* MzIdentMLWriter.write_spectrum_identification_result
write_spectrum_identification_result(id, spectra_data_id) ==
    WriteComponent("write_spectrum_identification_result",
                   "SpectrumIdentificationResult", id,
                   <<<<"SpectraData", spectra_data_id>>>>, <<>>, <<>>)

\* f.register(category, key), as the caller calls it
Register(cat, key) ==
    /\ exc = "none"
    /\ key = AUTO => counter[cat] < MaxAuto
    /\ LET r == register(context, counter, cat, key)
       IN  /\ context' = r.ctx
           /\ counter' = r.cnt
           /\ last' = [NoLast EXCEPT !.op = "register", !.cat = cat, !.key = key,
                                     !.ret = r.id, !.pre = Len(stream)]
    /\ UNCHANGED <<stream, element_stack, flushed, sections, frames, exc,
                   warnings, calls>>

----------------------------------------------------------------------------
(* MzIdentMLWriter.spectrum_identification_protocol.  A tolerance is given *)
(* as nothing, as a bare number or as a tuple (value, unit); numbers are   *)
(* counted in millionths, so 5e-6 is 5 and 0.02 is 20000.                  *)

Threshold == 100        \* 1e-4, in millionths
Million == 1000000      \* 1e6

NoTolerance == [kind |-> "none", t |-> 0, unit |-> ""]
Number(t) == [kind |-> "number", t |-> t, unit |-> ""]
Tuple(t, unit) == [kind |-> "tuple", t |-> t, unit |-> unit]

\* the threshold itself taken as parts per million
fragment_tolerance_le(tol) ==
    IF tol.kind = "tuple"
    THEN <<<<"FragmentTolerance", tol.t, tol.unit>>>>
    ELSE IF tol.kind = "number"
    THEN IF tol.t <= Threshold
         THEN <<<<"FragmentTolerance", tol.t * Million, "parts per million">>>>
         ELSE <<<<"FragmentTolerance", tol.t, "dalton">>>>
    ELSE <<>>

\* the FragmentTolerance the protocol is built with: <<name, value, unit>>
fragment_tolerance(tol) ==
    IF tol.kind = "tuple"
    THEN <<<<"FragmentTolerance", tol.t, tol.unit>>>>
    ELSE IF tol.kind = "number"
    THEN IF tol.t < Threshold
         THEN <<<<"FragmentTolerance", tol.t * Million, "parts per million">>>>
         ELSE <<<<"FragmentTolerance", tol.t, "dalton">>>>
    ELSE <<>>

\* the ParentTolerance the protocol is built with
parent_tolerance(tol) ==
    IF tol.kind = "tuple"
    THEN <<<<"ParentTolerance", tol.t, tol.unit>>>>
    ELSE IF tol.kind = "number"
    THEN IF tol.t < Threshold
         THEN <<<<"ParentTolerance", tol.t * Million, "parts per million">>>>
         ELSE <<<<"ParentTolerance", tol.t, "dalton">>>>
    ELSE <<>>

spectrum_identification_protocol(analysis_software_id, id, fragment, parent) ==
    /\ Len(stream) < MaxProtocols
    /\ WriteComponent("spectrum_identification_protocol",
                      "SpectrumIdentificationProtocol", id,
                      <<<<"AnalysisSoftware", analysis_software_id>>>>,
                      fragment_tolerance(fragment) \o parent_tolerance(parent),
                      <<fragment, parent>>)

----------------------------------------------------------------------------
(* MzIdentMLWriter.providence.  software and organization are lists of     *)
(* ids, owner a list of persons [id, affiliation].                         *)

Person(id, affiliation) == [id |-> id, affiliation |-> affiliation]

RECURSIVE RegisterAll(_, _, _)
RegisterAll(ctx, cat, ids) ==
    IF ids = <<>> THEN ctx
    ELSE RegisterAll(register(ctx, counter, cat, Head(ids)).ctx, cat, Tail(ids))

PersonIds(owner) == [k \in 1..Len(owner) |-> owner[k].id]

Affiliations(owner) ==
    [k \in 1..Len(owner) |-> <<"Organization", owner[k].affiliation>>]

\* owner and organization as providence writes them: the default pair when
\* neither was given
default_injected(owner, organization) == owner = <<>> /\ organization = <<>>

providence_owner(owner, organization) ==
    IF default_injected(owner, organization)
    THEN <<Person(DEFAULT_CONTACT_ID, DEFAULT_ORGANIZATION_ID)>>
    ELSE owner

providence_organization(owner, organization) ==
    IF default_injected(owner, organization)
    THEN <<DEFAULT_ORGANIZATION_ID>>
    ELSE organization

\* the arguments ensured, the default organization not registered
providence_context_unregistered(software, owner, organization) ==
    RegisterAll(RegisterAll(RegisterAll(context, "Organization", organization),
                            "Person", PersonIds(owner)),
                "AnalysisSoftware", software)

\* the registry once the arguments are ensured and the defaults injected;
\* the explicit register of the default organization comes before the
\* default Person, which refers to it
providence_context(software, owner, organization) ==
    LET c1 == RegisterAll(context, "Organization", organization)
        c2 == RegisterAll(c1, "Person", PersonIds(owner))
        c3 == RegisterAll(c2, "AnalysisSoftware", software)
        c4 == IF default_injected(owner, organization)
              THEN register(c3, counter, "Organization", DEFAULT_ORGANIZATION_ID).ctx
              ELSE c3
    IN  c4

providence(software, owner, organization) ==
    LET c1 == RegisterAll(context, "Organization", organization)
        c4 == providence_context(software, owner, organization)
        own == providence_owner(owner, organization)
        org == providence_organization(owner, organization)
    IN  /\ exc = "none"
        /\ Room(3)
        /\ IF ~Resolvable(c1, Affiliations(owner))
           THEN /\ exc' = "DanglingReferenceError"
                /\ context' = c1
                /\ UNCHANGED <<stream, calls>>
           ELSE IF ~Resolvable(c4, Affiliations(own))
           THEN /\ exc' = "DanglingReferenceError"
                /\ context' = c4
                /\ UNCHANGED <<stream, calls>>
           ELSE LET c5 == RegisterAll(RegisterAll(c4, "Person", PersonIds(own)),
                                      "Organization", org)
                IN  /\ context' = c5
                    /\ stream' = stream \o
                         << Event("element", "AnalysisSoftwareList", NoId, <<>>, <<>>),
                            Event("element", "Provider", NoId,
                                  IF own = <<>> THEN <<>>
                                  ELSE Resolved(c5, <<<<"Person", own[1].id>>>>), <<>>),
                            Event("element", "AuditCollection", NoId,
                                  Resolved(c5, Affiliations(own)), <<>>) >>
                    /\ UNCHANGED <<exc, calls>>
        /\ last' = [NoLast EXCEPT !.op = "providence", !.pre = Len(stream),
                                  !.flag = default_injected(owner, organization),
                                  !.owner = owner, !.organization = organization]
        /\ UNCHANGED <<counter, element_stack, flushed, sections, frames, warnings>>

----------------------------------------------------------------------------
(* The sections specification: a caller that creates sections outside any  *)
(* with-statement, enters and leaves them with with-statements (the same   *)
(* instance more than once too), writes records and may raise inside the   *)
(* blocks, and handles exceptions outside all of them.                     *)

Ids == {Lit(1), Lit(2)}

Counts == {None, 10}

OtherParam == Param("MS:1002394", 3, TRUE)

BadParam == Param("MS:1002394", 4, FALSE)

ParamLists == {<<>>, <<OtherParam>>, <<OtherParam, Param(CountAccession, 7, TRUE)>>,
               <<BadParam>>}

Next ==
    \/ frames = <<>> /\ sequence_collection
    \/ \E measures \in {"ok", "bad"} :
           frames = <<>> /\ spectrum_identification_list(Lit(1), measures)
    \/ \E count \in Counts, params \in ParamLists :
           frames = <<>> /\ protein_detection_list(Lit(1), count, params)
    \/ \E i \in 1..Len(sections) : WithEnter(i)
    \/ WithExit
    \/ BodyRaise
    \/ Unwind
    \/ Catch
    \/ frames # <<>> /\ write_peptide(Lit(1))

Spec == Init /\ [][Next]_vars

----------------------------------------------------------------------------
(* The records specification: the caller first registers the entities the  *)
(* records refer to, then writes records, inside sections and outside,     *)
(* each section being created and entered once.                            *)

RefCategories == {"SearchDatabase", "SpectraData", "AnalysisSoftware"}

\* every section created so far has been entered
AllEntered == \A i \in 1..Len(sections) : sections[i].toplevel

NextWrite ==
    \/ AllEntered /\ sequence_collection
    \/ AllEntered /\ spectrum_identification_list(Lit(1), "ok")
    \/ \E i \in 1..Len(sections) : ~sections[i].toplevel /\ WithEnter(i)
    \/ WithExit
    \/ Unwind
    \/ Catch
    \/ \E cat \in RefCategories :
           sections = <<>> /\ ~Has(context, cat, DefaultId) /\ Register(cat, DefaultId)
    \/ \E ref \in Ids : write_db_sequence(Lit(1), ref)
    \/ \E id \in Ids : write_peptide(id)
    \/ \E p \in Ids : write_peptide_evidence(p, Lit(1), Lit(1))
    \/ \E ref \in Ids : write_spectrum_identification_result(Lit(1), ref)
    \/ \E ref \in Ids :
           spectrum_identification_protocol(ref, DefaultId, NoTolerance, NoTolerance)

SpecWrite == Init /\ [][NextWrite]_vars

----------------------------------------------------------------------------
(* The registry specification: register and providence.                    *)

Keys == Ids \cup {AUTO, <<"Peptide", 1>>}

RegCategories == {"Peptide", "Organization"}

Owners == {<<>>, <<Person(Lit(1), Lit(1))>>, <<Person(Lit(1), DEFAULT_ORGANIZATION_ID)>>}

Organizations == {<<>>, <<Lit(1)>>}

Softwares == {<<>>, <<Lit(1)>>}

NextReg ==
    \/ \E cat \in RegCategories, key \in Keys : Register(cat, key)
    \/ \E software \in Softwares, owner \in Owners, organization \in Organizations :
           providence(software, owner, organization)
    \/ Catch

SpecReg == Init /\ [][NextReg]_vars

----------------------------------------------------------------------------
(* The protocol specification: spectrum_identification_protocol over bare  *)
(* and tupled tolerances on both sides of the threshold.                   *)

FragmentTolerances == {NoTolerance, Number(5), Number(99), Number(100),
                       Number(20000), Tuple(10, "dalton")}

ParentTolerances == {NoTolerance, Number(99), Number(100)}

NextTol ==
    \/ \E id \in Ids : Register("AnalysisSoftware", id)
    \/ \E software \in Ids, f \in FragmentTolerances, p \in ParentTolerances :
           spectrum_identification_protocol(software, DefaultId, f, p)
    \/ Catch

SpecTol == Init /\ [][NextTol]_vars

----------------------------------------------------------------------------
(* The raw specification: __enter__ and __exit__ called in any order.      *)

NextRaw ==
    \/ sequence_collection
    \/ spectrum_identification_list(Lit(1), "ok")
    \/ \E i \in 1..Len(sections) : RawEnter(i)
    \/ \E i \in 1..Len(sections) : RawExit(i)
    \/ RawCatch

SpecRaw == Init /\ [][NextRaw]_vars

----------------------------------------------------------------------------
(* The session specification: one writing session that mixes every kind of *)
(* operation touching the registry: register, providence, sections with   *)
(* ids (created, entered, left, entered again, failing on entry) and       *)
(* record writes.                                                          *)

\* the sections with an id: <<id, measures>>
SessionLists == {<<Lit(1), "ok">>, <<Lit(1), "bad">>,
                 <<<<"SpectrumIdentificationList", 1>>, "ok">>}

SessionKeys == {Lit(1), AUTO}

NextSession ==
    \/ \E key \in SessionKeys :
           frames = <<>> /\ Register("SpectrumIdentificationList", key)
    \/ \E organization \in Organizations :
           sections = <<>> /\ providence(<<>>, <<>>, organization)
    \/ frames = <<>> /\ sequence_collection
    \/ \E l \in SessionLists :
           frames = <<>> /\ spectrum_identification_list(l[1], l[2])
    \/ \E i \in 1..Len(sections) : WithEnter(i)
    \/ WithExit
    \/ Unwind
    \/ Catch
    \/ frames # <<>> /\ write_peptide(AUTO)

SpecSession == Init /\ [][NextSession]_vars

----------------------------------------------------------------------------
(* What the stream holds, read back from its events. *)

\* the tags of the elements open after the first k events of str
RECURSIVE OpenTags(_, _)
OpenTags(str, k) ==
    IF k = 0 THEN <<>>
    ELSE LET before == OpenTags(str, k - 1)
         IN  IF str[k].op = "open" THEN Append(before, str[k].tag)
             ELSE IF str[k].op = "close" THEN Pop(before)
             ELSE before

Unclosed(str) == OpenTags(str, Len(str))

----------------------------------------------------------------------------
(* C1. Section cleanup on failure: when an error raised in the body of a   *)
(* with-statement over a section leaves that with-statement, the section's *)
(* __exit__ writes the section's closing tag and flushes the stream, the   *)
(* error goes on propagating, and the element the section opened is no     *)
(* longer open on the stream.                                              *)
C1_SectionCleanupOnFailure ==
    [][ (exc # "none" /\ frames # <<>>) =>
          LET s == sections[Top(frames)]
          IN  /\ Len(stream') = Len(stream) + 1
              /\ stream'[Len(stream')].op = "close"
              /\ stream'[Len(stream')].tag = s.section
              /\ flushed' = Len(stream')
              /\ Unclosed(stream') = Pop(Unclosed(stream))
              /\ Len(Unclosed(stream')) = Len(frames') ]_vars

----------------------------------------------------------------------------
HasCount(params) == \E k \in 1..Len(params) : params[k].accession = "MS:1002404"

(* C2. Conflict detection: protein_detection_list called with a count that *)
(* is not None and with a queued parameter of accession MS:1002404 raises  *)
(* the error at construction; no section is created, nothing is written to *)
(* the stream and the registry is unchanged.                               *)
C2_ConflictDetection ==
    [][ ( /\ last'.op = "protein_detection_list"
          /\ last'.count # None
          /\ HasCount(last'.params) ) =>
        ( /\ exc' = "ValueError"
          /\ sections' = sections
          /\ stream' = stream
          /\ element_stack' = element_stack
          /\ context' = context ) ]_vars

C2_Conflict ==
    /\ last.op = "protein_detection_list"
    /\ last.count = 10
    /\ HasCount(last.params)
    /\ exc = "ValueError"

(* C8. Missing protein count is non-fatal: protein_detection_list called   *)
(* with count None and no queued MS:1002404 parameter warns once, raises   *)
(* nothing and creates the section with the queued parameters as given, no *)
(* count parameter among them; entering that section (its parameters being *)
(* writable) and leaving it raise nothing and write its open and closing   *)
(* tags.                                                                   *)
C8_MissingCountNonFatal ==
    [][ /\ ( /\ last'.op = "protein_detection_list"
             /\ last'.count = None
             /\ ~HasCount(last'.params) ) =>
           ( /\ warnings' = warnings + 1
             /\ exc' = "none"
             /\ Len(sections') = Len(sections) + 1
             /\ sections'[Len(sections')].section = "ProteinDetectionList"
             /\ sections'[Len(sections')].params = last'.params
             /\ stream' = stream )
        /\ ( /\ last'.op \in {"enter", "exit"}
             /\ sections[last'.sec].section = "ProteinDetectionList"
             /\ ~HasCount(sections[last'.sec].params)
             /\ \A k \in 1..Len(sections[last'.sec].params) :
                    sections[last'.sec].params[k].encodable ) =>
           ( /\ exc' = "none"
             /\ Len(stream') > Len(stream)
             /\ stream'[Len(stream) + 1].op =
                    (IF last'.op = "enter" THEN "open" ELSE "close")
             /\ stream'[Len(stream) + 1].tag = "ProteinDetectionList" ) ]_vars

C8_EnteredAndLeft ==
    /\ last.op = "exit"
    /\ sections[last.sec].section = "ProteinDetectionList"
    /\ ~HasCount(sections[last.sec].params)
    /\ warnings > 0
    /\ exc = "none"
    /\ stream[Len(stream)].op = "close"

(* C9. Emission order on section entry: when __enter__ returns, what it    *)
(* wrote is the open tag of the section, then one event per queued         *)
(* parameter in queue order, then, for a SpectrumIdentificationList, the   *)
(* fragmentation table, and nothing else; what the caller writes comes     *)
(* after.                                                                  *)
C9_EmissionOrderOnEntry ==
    (last.op = "enter" /\ exc = "none") =>
        LET s == sections[last.sec]
            n == Len(s.params)
            p == last.pre
            t == IF s.section = "SpectrumIdentificationList" THEN 1 ELSE 0
        IN  /\ Len(stream) = p + 1 + n + t
            /\ stream[p + 1].op = "open"
            /\ stream[p + 1].tag = s.section
            /\ \A k \in 1..n :
                  /\ stream[p + 1 + k].op = "param"
                  /\ stream[p + 1 + k].tag = s.params[k].accession
                  /\ stream[p + 1 + k].id = Lit(s.params[k].value)
            /\ t = 1 =>
                  /\ stream[p + n + 2].op = "element"
                  /\ stream[p + n + 2].tag = "FragmentationTable"

C9_EnteredWithParams ==
    /\ last.op = "enter"
    /\ exc = "none"
    /\ Len(sections[last.sec].params) = 2
    /\ sections[last.sec].params[1] # sections[last.sec].params[2]

----------------------------------------------------------------------------
WriteOps == {"write_db_sequence", "write_peptide", "write_peptide_evidence",
             "write_spectrum_identification_result",
             "spectrum_identification_protocol"}

(* C4. Reference integrity: every cross-reference a step writes to the     *)
(* stream is an identifier that was registered under the reference's       *)
(* category before that step; and a write operation given a reference to a *)
(* key never registered in its category raises DanglingReferenceError and  *)
(* writes nothing.                                                         *)
C4_ReferenceIntegrity ==
    [][ /\ \A k \in (Len(stream) + 1)..Len(stream') :
             \A j \in 1..Len(stream'[k].refs) :
                 stream'[k].refs[j][2] \in Assigned(context, stream'[k].refs[j][1])
        /\ ( /\ last'.op \in WriteOps
             /\ \E j \in 1..Len(last'.refs) :
                    \A q \in context[last'.refs[j][1]] : q[1] # last'.refs[j][2] ) =>
           ( /\ exc' = "DanglingReferenceError"
             /\ stream' = stream ) ]_vars

C4_EvidenceWritten ==
    /\ last.op = "write_peptide_evidence"
    /\ exc = "none"
    /\ stream[Len(stream)].tag = "PeptideEvidence"
    /\ stream[Len(stream)].refs = <<<<"Peptide", Lit(2)>>, <<"DBSequence", Lit(1)>>>>

----------------------------------------------------------------------------
RecordCategories == {"DBSequence", "Peptide", "PeptideEvidence",
                     "SpectrumIdentificationResult",
                     "SpectrumIdentificationProtocol"}

\* the records among the first k events of str: <<tag, id, tag of the parent>>
RECURSIVE Written(_, _)
Written(str, k) ==
    IF k = 0 THEN <<>>
    ELSE IF str[k].op = "element" /\ str[k].tag \in RecordCategories
         THEN Append(Written(str, k - 1),
                     <<str[k].tag, str[k].id,
                       IF OpenTags(str, k - 1) = <<>> THEN ""
                       ELSE Top(OpenTags(str, k - 1))>>)
         ELSE Written(str, k - 1)

\* the records the caller asked for, each with the tag of the section it
\* was written in
Asked ==
    [k \in 1..Len(calls) |->
        <<calls[k][1], calls[k][2],
          IF calls[k][3] = 0 THEN "" ELSE sections[calls[k][3]].section>>]

(* C7. Order and count preservation: the record elements on the stream are *)
(* exactly the records the caller wrote, one element per call, in the      *)
(* order of the calls, each a child of the section that was open when it   *)
(* was written.                                                            *)
C7_OrderAndCount == Written(stream, Len(stream)) = Asked

C7_ThreeRecords ==
    /\ Len(calls) = 3
    /\ calls[1][1] = "DBSequence"
    /\ calls[2][1] = "Peptide"
    /\ calls[3][1] = "PeptideEvidence"
    /\ \A k \in 1..3 : calls[k][3] # 0 /\ calls[k][3] = calls[1][3]
    /\ exc = "none"

----------------------------------------------------------------------------
(* C5. Default-provider injection: providence called with no owner and no  *)
(* organization raises nothing; the organization identifiers registered    *)
(* after it are those registered before and the default organization id,   *)
(* the person identifiers those before and the default person's; the       *)
(* person written has that organization id as affiliation; the default     *)
(* organization resolves to that id. A second such call adds nothing.      *)
C5_DefaultProviderInjection ==
    [][ ( /\ last'.op = "providence"
          /\ last'.owner = <<>>
          /\ last'.organization = <<>> ) =>
        ( /\ exc' = "none"
          /\ Assigned(context', "Organization") =
                 Assigned(context, "Organization") \cup {DEFAULT_ORGANIZATION_ID}
          /\ Assigned(context', "Person") =
                 Assigned(context, "Person") \cup {DEFAULT_CONTACT_ID}
          /\ \A q \in context'["Organization"] :
                 q[1] = DEFAULT_ORGANIZATION_ID => q[2] = DEFAULT_ORGANIZATION_ID
          /\ \E q \in context'["Organization"] : q[1] = DEFAULT_ORGANIZATION_ID
          /\ stream'[Len(stream')].tag = "AuditCollection"
          /\ stream'[Len(stream')].refs =
                 <<<<"Organization", DEFAULT_ORGANIZATION_ID>>>> ) ]_vars

C5_SecondDefaultCall ==
    /\ last.op = "providence"
    /\ last.owner = <<>>
    /\ last.organization = <<>>
    /\ exc = "none"
    /\ Len(stream) = 6
    /\ Assigned(context, "Organization") = {DEFAULT_ORGANIZATION_ID}
    /\ Assigned(context, "Person") = {DEFAULT_CONTACT_ID}

(* C6. Idempotent registration: register(cat, key) with an explicit key    *)
(* already registered returns the identifier registered for it, and after  *)
(* any register(cat, key) the key is registered with the identifier        *)
(* returned, so a second call returns the same; register(cat, AUTO)        *)
(* returns an identifier that was not assigned in cat before the call and  *)
(* is assigned after it. No step removes or changes a registration.        *)
C6_IdempotentRegistration ==
    [][ /\ \A c \in Categories : context[c] \subseteq context'[c]
        /\ (last'.op = "register" /\ last'.key # AUTO) =>
             /\ \A q \in context[last'.cat] :
                    q[1] = last'.key => last'.ret = q[2]
             /\ <<last'.key, last'.ret>> \in context'[last'.cat]
             /\ \A q \in context'[last'.cat] :
                    q[1] = last'.key => q[2] = last'.ret
        /\ (last'.op = "register" /\ last'.key = AUTO) =>
             /\ last'.ret \notin Assigned(context, last'.cat)
             /\ last'.ret \in Assigned(context', last'.cat) ]_vars

C6_SecondAuto ==
    /\ last.op = "register"
    /\ last.key = AUTO
    /\ last.cat = "Peptide"
    /\ counter["Peptide"] = 2
    /\ <<"Peptide", 1>> \in Assigned(context, "Peptide")
    /\ Lit(1) \in Assigned(context, "Peptide")

----------------------------------------------------------------------------
AttrsNamed(ev, name) ==
    {<<ev.attrs[k][2], ev.attrs[k][3]>> :
        k \in {j \in 1..Len(ev.attrs) : ev.attrs[j][1] = name}}

\* what a bare number t must be written as
Policy(t) ==
    IF t < 100 THEN <<t * 1000000, "parts per million">> ELSE <<t, "dalton">>

(* C3. Tolerance-unit policy: a protocol written with a bare numeric       *)
(* fragment (or parent) tolerance t carries that tolerance as parts per    *)
(* million with value t * 1e6 when t < 1e-4 and as dalton with value t     *)
(* when t >= 1e-4: 5e-6 gives 5.0 parts per million, 0.02 gives 0.02       *)
(* dalton, 1e-4 gives dalton (numbers counted in millionths).              *)
C3_ToleranceUnitPolicy ==
    (last.op = "spectrum_identification_protocol" /\ exc = "none") =>
        LET ev == stream[Len(stream)]
            f == last.tols[1]
            p == last.tols[2]
        IN  /\ f.kind = "number" => AttrsNamed(ev, "FragmentTolerance") = {Policy(f.t)}
            /\ p.kind = "number" => AttrsNamed(ev, "ParentTolerance") = {Policy(p.t)}
            /\ f = Number(5) =>
                 AttrsNamed(ev, "FragmentTolerance") = {<<5000000, "parts per million">>}
            /\ f = Number(20000) =>
                 AttrsNamed(ev, "FragmentTolerance") = {<<20000, "dalton">>}
            /\ f = Number(100) =>
                 AttrsNamed(ev, "FragmentTolerance") = {<<100, "dalton">>}

C3_AtThreshold ==
    /\ last.op = "spectrum_identification_protocol"
    /\ exc = "none"
    /\ last.tols = <<Number(100), Number(99)>>
    /\ Len(stream) = 2
    /\ stream[1].attrs = <<<<"FragmentTolerance", 5000000, "parts per million">>>>

----------------------------------------------------------------------------
(* C10. Stream discipline: __exit__ called on a section while a section    *)
(* entered after it is still open, __exit__ called on a section already    *)
(* left, and __enter__ called on a section that is open are each rejected  *)
(* with StreamDisciplineError, and nothing is written.                     *)
C10_StreamDiscipline ==
    (last.op \in {"raw_enter", "raw_exit"} /\ last.flag) =>
        (exc = "StreamDisciplineError" /\ Len(stream) = last.pre)

----------------------------------------------------------------------------
\* no key of a category is mapped twice
Functional(ctx) ==
    \A c \in Categories : \A p \in ctx[c], q \in ctx[c] : p[1] = q[1] => p = q

----------------------------------------------------------------------------
(* C12. No unterminated element after a failed entry: when __enter__ of a  *)
(* section raises after it opened the section's element (a queued          *)
(* parameter's write raised, or the fragmentation table's), the element is *)
(* closed again and the stream flushed before the error reaches the        *)
(* caller, so the elements open on the stream are those open before.       *)
C12_NoUnterminatedElementAfterFailedEntry ==
    [][ (last'.op = "enter" /\ EnterFails(sections[last'.sec])) =>
            /\ exc' # "none"
            /\ Unclosed(stream') = Unclosed(stream)
            /\ element_stack' = element_stack
            /\ flushed' = Len(stream')
      ]_vars

====
